---- MODULE Spec2Model ----
(***************************************************************************)
(* Buffer pool, InBuffer/OutBuffer and the {packet, N} framing protocol of *)
(* the link library (buffer pool source: src/unnamed/part_000, framing:    *)
(* src/packetn.go).                                                        *)
(*                                                                         *)
(* A Go slice is the record [ptr, len, cap, mem]: ptr names the backing    *)
(* array (0 for a nil slice), mem is the prefix of the backing array that  *)
(* has been written so far; backing bytes beyond Len(mem) are the zeros    *)
(* make() left there.  Backing-array index i (0-based) is mem[i + 1].      *)
(***************************************************************************)
EXTENDS Integers, Sequences, FiniteSets, TLC

VARIABLES
    inBuf,          \* InBuffer shells ever allocated: Seq of [Data, ReadPos, isFreed]
    outBuf,         \* OutBuffer shells: Seq of [Data, isFreed, isBroadcast, refCount]
    poolIn,         \* bufferPool.in   : shell ids stored in the sub-pool
    poolOut,        \* bufferPool.out  : shell ids stored in the sub-pool
    poolData,       \* bufferPool.data : slices stored in the sub-pool
    getIn, newIn, getOut, newOut, getData, newData, freeCount, dropCount,
    bufferInitSize, bufferMaxSize,
    nextPtr,        \* number of backing arrays allocated so far
    freedOnce,      \* shells Free was called on since they were last handed out
    ret,            \* outcome of the last call
    bc, ndest, dpc, \* broadcast: shared shell, number of destinations, their position
    releases,       \* broadcast: number of broadcastFree calls made so far
    bo, id, wmax, rmax,     \* protocol byte order and id, writer / reader maxsize
    wbuf, wpc,              \* writer's OutBuffer (its Data) and position in a frame
    conn, connEnd,          \* bytes in flight, and how the stream ended ("open" if not)
    rbuf, head,             \* reader's InBuffer (its Data) and header scratch r.head
    sent, nreads,           \* payloads fully written; number of ReadPacket calls returned
    phase, kinds, mark,     \* recycling scenario: step, kinds of the batch, counters at batch 2
    written, decoded,       \* codec scenario: values encoded so far, what was decoded so far
    pc, loc, snap           \* concurrent callers: position and buffer of each; GetPoolState loads

counters == <<getIn, newIn, getOut, newOut, getData, newData, freeCount, dropCount>>
subPools == <<poolIn, poolOut, poolData>>
config == <<bufferInitSize, bufferMaxSize>>
poolVars == <<inBuf, outBuf, subPools, counters, config, nextPtr, freedOnce>>
bcVars == <<bc, ndest, dpc, releases>>
frameVars == <<bo, id, wmax, rmax, wbuf, wpc, conn, connEnd, rbuf, head, sent, nreads>>
codecVars == <<written, decoded>>
concVars == <<pc, loc, snap>>
scenVars == <<phase, kinds, mark, codecVars, concVars>>
vars == <<poolVars, ret, bcVars, frameVars, scenVars>>

(***************************************************************************)
(* Bounds of the model.                                                    *)
(***************************************************************************)
MaxShells == 2      \* shells of each kind that may be allocated
MaxArenas == 3      \* backing arrays that may be allocated
MaxGets == 3        \* acquire calls
MaxFrees == 3       \* calls that reach PutInBuffer / PutOutBuffer
MaxReadPos == 2     \* decode calls are issued while ReadPos is below this
MaxLen == 2         \* appends are issued while len(Data) is below this
MaxDecodeGets == 1  \* acquire calls in SpecDecode

(***************************************************************************)
(* Slices.                                                                 *)
(***************************************************************************)
NilSlice == [ptr |-> 0, len |-> 0, cap |-> 0, mem |-> <<>>]

\* make([]byte, l, c) at backing array p
Make(p, l, c) == [ptr |-> p, len |-> l, cap |-> c, mem |-> <<>>]

\* backing[lo:hi] of slice d (0-based, half open), zeros where never written
Backing(d, lo, hi) ==
    [i \in 1..(hi - lo) |-> IF lo + i <= Len(d.mem) THEN d.mem[lo + i] ELSE 0]

\* the bytes d[0:len(d)]
Bytes(d) == Backing(d, 0, d.len)

\* copy of p into d[at:] (the caller makes sure at + len(p) <= cap(d))
Store(d, at, p) ==
    [d EXCEPT !.mem = Backing(d, 0, at) \o p \o SubSeq(d.mem, at + Len(p) + 1, Len(d.mem))]

Remove(s, i) == SubSeq(s, 1, i - 1) \o SubSeq(s, i + 1, Len(s))

\* sync.Pool.Get: any stored item, or New() (choice 0) when nothing is stored
PoolGet(pool) == IF pool = <<>> THEN {0} ELSE 1..Len(pool)

(***************************************************************************)
(* Buffer pool (src/unnamed/part_000).                                     *)
(***************************************************************************)
DefaultInitSize == 4096
DefaultMaxSize == 102400

\* what pool.in.New / pool.out.New return
FreshIn == [Data |-> NilSlice, ReadPos |-> 0, isFreed |-> FALSE]
FreshOut == [Data |-> NilSlice, isFreed |-> FALSE, isBroadcast |-> FALSE, refCount |-> 0]

\* newBufferPool(): empty sub-pools, zero counters, default sizes
InitPool ==
    /\ inBuf = <<>> /\ outBuf = <<>>
    /\ poolIn = <<>> /\ poolOut = <<>> /\ poolData = <<>>
    /\ getIn = 0 /\ newIn = 0 /\ getOut = 0 /\ newOut = 0
    /\ getData = 0 /\ newData = 0 /\ freeCount = 0 /\ dropCount = 0
    /\ bufferInitSize = DefaultInitSize /\ bufferMaxSize = DefaultMaxSize
    /\ nextPtr = 0
    /\ freedOnce = {}

\* pool.data.Get(): choice j of PoolGet(poolData); the slice, the pool left, and the
\* effect on newData and on the arrays allocated
DataGet(j) ==
    IF j = 0
    THEN [slice |-> Make(nextPtr + 1, 0, bufferInitSize), rest |-> poolData, fresh |-> 1]
    ELSE [slice |-> poolData[j], rest |-> Remove(poolData, j), fresh |-> 0]

GetInBuffer ==
    /\ \E i \in PoolGet(poolIn), j \in PoolGet(poolData) :
        LET b == IF i = 0 THEN Len(inBuf) + 1 ELSE poolIn[i]
            shells == IF i = 0 THEN Append(inBuf, FreshIn) ELSE inBuf
            d == DataGet(j)
        IN  /\ i = 0 => Len(inBuf) < MaxShells
            /\ j = 0 => nextPtr < MaxArenas
            /\ getIn' = getIn + 1
            /\ getData' = getData + 1
            /\ newIn' = IF i = 0 THEN newIn + 1 ELSE newIn
            /\ poolIn' = IF i = 0 THEN poolIn ELSE Remove(poolIn, i)
            /\ newData' = newData + d.fresh
            /\ nextPtr' = nextPtr + d.fresh
            /\ poolData' = d.rest
            /\ inBuf' = [shells EXCEPT ![b] = [@ EXCEPT !.Data = d.slice, !.isFreed = FALSE]]
            /\ freedOnce' = freedOnce \ {<<"in", b>>}
            /\ ret' = [op |-> "GetInBuffer", kind |-> "in", b |-> b, panicked |-> FALSE,
                       recycled |-> i # 0]
    /\ UNCHANGED <<outBuf, poolOut, getOut, newOut, freeCount, dropCount, config>>

GetOutBuffer ==
    /\ \E i \in PoolGet(poolOut), j \in PoolGet(poolData) :
        LET b == IF i = 0 THEN Len(outBuf) + 1 ELSE poolOut[i]
            shells == IF i = 0 THEN Append(outBuf, FreshOut) ELSE outBuf
            d == DataGet(j)
        IN  /\ i = 0 => Len(outBuf) < MaxShells
            /\ j = 0 => nextPtr < MaxArenas
            /\ getOut' = getOut + 1
            /\ getData' = getData + 1
            /\ newOut' = IF i = 0 THEN newOut + 1 ELSE newOut
            /\ poolOut' = IF i = 0 THEN poolOut ELSE Remove(poolOut, i)
            /\ newData' = newData + d.fresh
            /\ nextPtr' = nextPtr + d.fresh
            /\ poolData' = d.rest
            /\ outBuf' = [shells EXCEPT ![b] = [@ EXCEPT !.Data = d.slice, !.isFreed = FALSE,
                                                     !.isBroadcast = FALSE, !.refCount = 0]]
            /\ freedOnce' = freedOnce \ {<<"out", b>>}
            /\ ret' = [op |-> "GetOutBuffer", kind |-> "out", b |-> b, panicked |-> FALSE,
                       recycled |-> i # 0]
    /\ UNCHANGED <<inBuf, poolIn, getIn, newIn, freeCount, dropCount, config>>

\* PutInBuffer without the capacity ceiling: every buffer is recycled
PutInBuffer_NoCeiling(b) ==
    /\ freeCount' = freeCount + 1
    /\ poolData' = Append(poolData, [inBuf[b].Data EXCEPT !.len = 0])
    /\ inBuf' = [inBuf EXCEPT ![b] = [Data |-> NilSlice, ReadPos |-> 0, isFreed |-> TRUE]]
    /\ poolIn' = Append(poolIn, b)
    /\ UNCHANGED <<outBuf, poolOut, getIn, newIn, getOut, newOut, getData, newData,
                   dropCount, config, nextPtr>>

\* PutInBuffer leaving the read cursor of the recycled shell where it was
PutInBuffer_KeepReadPos(b) ==
    /\ freeCount' = freeCount + 1
    /\ IF inBuf[b].Data.cap > bufferMaxSize
       THEN /\ dropCount' = dropCount + 1
            /\ UNCHANGED <<inBuf, poolIn, poolData>>
       ELSE /\ poolData' = Append(poolData, [inBuf[b].Data EXCEPT !.len = 0])
            /\ inBuf' = [inBuf EXCEPT ![b] = [@ EXCEPT !.Data = NilSlice, !.isFreed = TRUE]]
            /\ poolIn' = Append(poolIn, b)
            /\ UNCHANGED dropCount
    /\ UNCHANGED <<outBuf, poolOut, getIn, newIn, getOut, newOut, getData, newData,
                   config, nextPtr>>

PutInBuffer(b) ==
    /\ freeCount' = freeCount + 1
    /\ IF inBuf[b].Data.cap > bufferMaxSize
       THEN /\ dropCount' = dropCount + 1
            /\ UNCHANGED <<inBuf, poolIn, poolData>>
       ELSE /\ poolData' = Append(poolData, [inBuf[b].Data EXCEPT !.len = 0])
            /\ inBuf' = [inBuf EXCEPT ![b] = [Data |-> NilSlice, ReadPos |-> 0, isFreed |-> TRUE]]
            /\ poolIn' = Append(poolIn, b)
            /\ UNCHANGED dropCount
    /\ UNCHANGED <<outBuf, poolOut, getIn, newIn, getOut, newOut, getData, newData,
                   config, nextPtr>>

\* PutOutBuffer without the capacity ceiling: every buffer is recycled
PutOutBuffer_NoCeiling(b) ==
    /\ freeCount' = freeCount + 1
    /\ poolData' = Append(poolData, [outBuf[b].Data EXCEPT !.len = 0])
    /\ outBuf' = [outBuf EXCEPT ![b] = [@ EXCEPT !.Data = NilSlice, !.isFreed = TRUE]]
    /\ poolOut' = Append(poolOut, b)
    /\ UNCHANGED <<inBuf, poolIn, getIn, newIn, getOut, newOut, getData, newData,
                   dropCount, config, nextPtr>>

\* PutOutBuffer storing out.Data instead of out.Data[0:0]
PutOutBuffer_NoTruncate(b) ==
    /\ freeCount' = freeCount + 1
    /\ IF outBuf[b].Data.cap > bufferMaxSize
       THEN /\ dropCount' = dropCount + 1
            /\ UNCHANGED <<outBuf, poolOut, poolData>>
       ELSE /\ poolData' = Append(poolData, outBuf[b].Data)
            /\ outBuf' = [outBuf EXCEPT ![b] = [@ EXCEPT !.Data = NilSlice, !.isFreed = TRUE]]
            /\ poolOut' = Append(poolOut, b)
            /\ UNCHANGED dropCount
    /\ UNCHANGED <<inBuf, poolIn, getIn, newIn, getOut, newOut, getData, newData,
                   config, nextPtr>>

PutOutBuffer(b) ==
    /\ freeCount' = freeCount + 1
    /\ IF outBuf[b].Data.cap > bufferMaxSize
       THEN /\ dropCount' = dropCount + 1
            /\ UNCHANGED <<outBuf, poolOut, poolData>>
       ELSE /\ poolData' = Append(poolData, [outBuf[b].Data EXCEPT !.len = 0])
            /\ outBuf' = [outBuf EXCEPT ![b] = [@ EXCEPT !.Data = NilSlice, !.isFreed = TRUE]]
            /\ poolOut' = Append(poolOut, b)
            /\ UNCHANGED dropCount
    /\ UNCHANGED <<inBuf, poolIn, getIn, newIn, getOut, newOut, getData, newData,
                   config, nextPtr>>

\* InBuffer.Free
InFree(b) ==
    /\ freedOnce' = freedOnce \cup {<<"in", b>>}
    /\ ret' = [op |-> "Free", kind |-> "in", b |-> b, panicked |-> inBuf[b].isFreed,
               second |-> <<"in", b>> \in freedOnce]
    /\ IF inBuf[b].isFreed
       THEN UNCHANGED <<inBuf, outBuf, subPools, counters, config, nextPtr>>
       ELSE PutInBuffer(b)

\* OutBuffer.Free
OutFree(b) ==
    /\ freedOnce' = freedOnce \cup {<<"out", b>>}
    /\ ret' = [op |-> "Free", kind |-> "out", b |-> b, panicked |-> outBuf[b].isFreed,
               second |-> <<"out", b>> \in freedOnce]
    /\ IF outBuf[b].isFreed
       THEN UNCHANGED <<inBuf, outBuf, subPools, counters, config, nextPtr>>
       ELSE PutOutBuffer(b)

\* PoolNewDataSize(size) / PoolMaxDataSize(size): size 0 only reads
PoolNewDataSize(size) ==
    /\ bufferInitSize' = IF size = 0 THEN bufferInitSize ELSE size
    /\ ret' = [op |-> "PoolNewDataSize", old |-> bufferInitSize, panicked |-> FALSE]
    /\ UNCHANGED <<inBuf, outBuf, subPools, counters, bufferMaxSize, nextPtr, freedOnce>>

PoolMaxDataSize(size) ==
    /\ bufferMaxSize' = IF size = 0 THEN bufferMaxSize ELSE size
    /\ ret' = [op |-> "PoolMaxDataSize", old |-> bufferMaxSize, panicked |-> FALSE]
    /\ UNCHANGED <<inBuf, outBuf, subPools, counters, bufferInitSize, nextPtr, freedOnce>>

(***************************************************************************)
(* InBuffer (src/unnamed/part_000).                                        *)
(***************************************************************************)
\* InBuffer.Prepare(size) on Data d; p is the array make() would return
Prepare(d, size, p) ==
    IF d.cap < size THEN Make(p, size, size) ELSE [d EXCEPT !.len = size]

\* InBuffer.Prepare allocating a new arena on every call
InPrepare_AlwaysAllocate(b, size) ==
    /\ nextPtr < MaxArenas
    /\ inBuf' = [inBuf EXCEPT ![b].Data = Make(nextPtr + 1, size, size)]
    /\ nextPtr' = nextPtr + 1
    /\ ret' = [op |-> "Prepare", kind |-> "in", b |-> b, panicked |-> FALSE, size |-> size]
    /\ UNCHANGED <<outBuf, subPools, counters, config, freedOnce>>

InPrepare(b, size) ==
    /\ inBuf[b].Data.cap < size => nextPtr < MaxArenas
    /\ inBuf' = [inBuf EXCEPT ![b].Data = Prepare(@, size, nextPtr + 1)]
    /\ nextPtr' = IF inBuf[b].Data.cap < size THEN nextPtr + 1 ELSE nextPtr
    /\ ret' = [op |-> "Prepare", kind |-> "in", b |-> b, panicked |-> FALSE, size |-> size]
    /\ UNCHANGED <<outBuf, subPools, counters, config, freedOnce>>

\* in.Data[in.ReadPos : in.ReadPos+n] is legal Go iff 0 <= low <= high <= cap
SliceInRange(r, n) ==
    /\ 0 <= r.ReadPos
    /\ r.ReadPos <= r.ReadPos + n
    /\ r.ReadPos + n <= r.Data.cap

\* InBuffer.Slice(n), called as operation op (Slice itself or a decode built on it)
Slice(b, n, op) ==
    LET r == inBuf[b]
        ok == SliceInRange(r, n)
    IN  /\ inBuf' = IF ok THEN [inBuf EXCEPT ![b].ReadPos = @ + n] ELSE inBuf
        /\ ret' = [op |-> op, kind |-> "in", b |-> b, panicked |-> ~ok, n |-> n,
                   lo |-> r.ReadPos, hi |-> r.ReadPos + n, len |-> r.Data.len,
                   bytes |-> IF ok THEN Backing(r.Data, r.ReadPos, r.ReadPos + n) ELSE <<>>]
        /\ UNCHANGED <<outBuf, subPools, counters, config, nextPtr, freedOnce>>

\* ReadBytes(n) / ReadString(n): a copy of Slice(n)
ReadBytes(b, n) == Slice(b, n, "ReadBytes")

\* ReadUint8, ReadUint16LE/BE, ReadUint32LE/BE, ReadUint64LE/BE: Slice(width)
ReadUint(b, width) == Slice(b, width, "ReadUint")

\* InBuffer.Read advancing the cursor by the length of the span, not by the bytes copied
InRead_AdvanceBySpan(b, m) ==
    LET r == inBuf[b]
        left == r.Data.len - r.ReadPos
        n == IF m + r.ReadPos > r.Data.len THEN left ELSE m
        bad == r.ReadPos > r.Data.len
        eof == r.ReadPos = r.Data.len
    IN  /\ inBuf' = IF bad \/ eof THEN inBuf ELSE [inBuf EXCEPT ![b].ReadPos = @ + m]
        /\ ret' = [op |-> "Read", kind |-> "in", b |-> b, panicked |-> bad, m |-> m,
                   lo |-> r.ReadPos, len |-> r.Data.len,
                   n |-> IF bad \/ eof THEN 0 ELSE n,
                   err |-> IF bad THEN "panic" ELSE IF eof THEN "EOF" ELSE "nil",
                   bytes |-> IF bad \/ eof THEN <<>>
                             ELSE Backing(r.Data, r.ReadPos, r.ReadPos + n)]
        /\ UNCHANGED <<outBuf, subPools, counters, config, nextPtr, freedOnce>>

\* InBuffer.Read(b) with len(b) = m: at the end of the data it reports io.EOF; else it
\* copies n = min(m, len(Data) - ReadPos) bytes.  With ReadPos beyond len(Data) the
\* expression in.Data[in.ReadPos:] panics before ReadPos is touched.
InRead(b, m) ==
    LET r == inBuf[b]
        left == r.Data.len - r.ReadPos
        n == IF m + r.ReadPos > r.Data.len THEN left ELSE m
        bad == r.ReadPos > r.Data.len
        eof == r.ReadPos = r.Data.len
    IN  /\ inBuf' = IF bad \/ eof THEN inBuf ELSE [inBuf EXCEPT ![b].ReadPos = @ + n]
        /\ ret' = [op |-> "Read", kind |-> "in", b |-> b, panicked |-> bad, m |-> m,
                   lo |-> r.ReadPos, len |-> r.Data.len,
                   n |-> IF bad \/ eof THEN 0 ELSE n,
                   err |-> IF bad THEN "panic" ELSE IF eof THEN "EOF" ELSE "nil",
                   bytes |-> IF bad \/ eof THEN <<>>
                             ELSE Backing(r.Data, r.ReadPos, r.ReadPos + n)]
        /\ UNCHANGED <<outBuf, subPools, counters, config, nextPtr, freedOnce>>

\* a UTF-8 continuation byte within lo..hi
Cont(p, i, lo, hi) == Len(p) >= i /\ p[i] >= lo /\ p[i] <= hi

\* the width utf8.DecodeRune reports for the bytes p: 0 for no bytes, the encoded width
\* of a well-formed code point, 1 for anything else
RuneWidth(p) ==
    IF Len(p) = 0 THEN 0
    ELSE LET c == p[1]
         IN  IF c < 128 THEN 1
             ELSE IF c >= 194 /\ c <= 223
                  THEN IF Cont(p, 2, 128, 191) THEN 2 ELSE 1
             ELSE IF c >= 224 /\ c <= 239
                  THEN IF /\ Cont(p, 2, IF c = 224 THEN 160 ELSE 128, IF c = 237 THEN 159 ELSE 191)
                          /\ Cont(p, 3, 128, 191)
                       THEN 3 ELSE 1
             ELSE IF c >= 240 /\ c <= 244
                  THEN IF /\ Cont(p, 2, IF c = 240 THEN 144 ELSE 128, IF c = 244 THEN 143 ELSE 191)
                          /\ Cont(p, 3, 128, 191)
                          /\ Cont(p, 4, 128, 191)
                       THEN 4 ELSE 1
             ELSE 1

\* InBuffer.ReadRune: in.Data[in.ReadPos:] panics when ReadPos is beyond len(Data)
ReadRune(b) ==
    LET r == inBuf[b]
        bad == r.ReadPos > r.Data.len
        size == IF bad THEN 0 ELSE RuneWidth(Backing(r.Data, r.ReadPos, r.Data.len))
    IN  /\ inBuf' = IF bad THEN inBuf ELSE [inBuf EXCEPT ![b].ReadPos = @ + size]
        /\ ret' = [op |-> "ReadRune", kind |-> "in", b |-> b, panicked |-> bad,
                   lo |-> r.ReadPos, len |-> r.Data.len, n |-> size]
        /\ UNCHANGED <<outBuf, subPools, counters, config, nextPtr, freedOnce>>

(***************************************************************************)
(* OutBuffer (src/unnamed/part_000).                                       *)
(***************************************************************************)
\* OutBuffer.Prepare(size)
OutPrepare(b, size) ==
    LET d == outBuf[b].Data
    IN  /\ d.cap < size => nextPtr < MaxArenas
        /\ outBuf' = [outBuf EXCEPT ![b].Data =
                         IF d.cap < size THEN Make(nextPtr + 1, 0, size) ELSE [d EXCEPT !.len = 0]]
        /\ nextPtr' = IF d.cap < size THEN nextPtr + 1 ELSE nextPtr
        /\ ret' = [op |-> "Prepare", kind |-> "out", b |-> b, panicked |-> FALSE]
        /\ UNCHANGED <<inBuf, subPools, counters, config, freedOnce>>

\* capacities append() may give the array it allocates for `need` bytes
GrowCaps(old, need) == {need, IF 2 * old > need THEN 2 * old ELSE need}

\* append(d, p...): in place when the capacity allows, else into a new array q of capacity c
AppendBytes(d, p, q, c) ==
    IF d.len + Len(p) <= d.cap
    THEN [Store(d, d.len, p) EXCEPT !.len = d.len + Len(p)]
    ELSE [ptr |-> q, len |-> d.len + Len(p), cap |-> c, mem |-> Bytes(d) \o p]

\* OutBuffer.Append / Write / WriteBytes / WriteString / WriteUint...
OutAppend(b, p) ==
    LET d == outBuf[b].Data
        grows == d.len + Len(p) > d.cap
    IN  /\ grows => nextPtr < MaxArenas
        /\ \E c \in GrowCaps(d.cap, d.len + Len(p)) :
              outBuf' = [outBuf EXCEPT ![b].Data = AppendBytes(d, p, nextPtr + 1, c)]
        /\ nextPtr' = IF grows THEN nextPtr + 1 ELSE nextPtr
        /\ ret' = [op |-> "Append", kind |-> "out", b |-> b, panicked |-> FALSE]
        /\ UNCHANGED <<inBuf, subPools, counters, config, freedOnce>>

(***************************************************************************)
(* Parts of the state a specification does not use keep these values.      *)
(***************************************************************************)
NoBroadcast == bc = 0 /\ ndest = 0 /\ dpc = <<>> /\ releases = 0
NoFrame ==
    /\ bo = "BE" /\ id = 0 /\ wmax = 0 /\ rmax = 0
    /\ wbuf = NilSlice /\ wpc = "idle" /\ conn = <<>> /\ connEnd = "open"
    /\ rbuf = NilSlice /\ head = <<>> /\ sent = <<>> /\ nreads = 0
NoCodec == written = <<>> /\ decoded = <<>>
NoConc == pc = <<>> /\ loc = <<>> /\ snap = <<>>
NoScenario == phase = "none" /\ kinds = <<>> /\ mark = <<>> /\ NoCodec /\ NoConc
NoCall == [op |-> "none", panicked |-> FALSE]

(***************************************************************************)
(* Spec: one caller using the pool and its buffers in any order.           *)
(***************************************************************************)
\* sizes passed to Prepare: a small one and one above the recycling ceiling
PrepareSizes == {1, bufferMaxSize + 1}
\* sizes passed to PoolNewDataSize / PoolMaxDataSize
ConfigSizes == {0, 2}

Init ==
    /\ InitPool
    /\ ret = NoCall
    /\ NoBroadcast /\ NoFrame /\ NoScenario

Next ==
    \/ getIn + getOut < MaxGets /\ GetInBuffer /\ UNCHANGED <<bcVars, frameVars, scenVars>>
    \/ getIn + getOut < MaxGets /\ GetOutBuffer /\ UNCHANGED <<bcVars, frameVars, scenVars>>
    \/ \E b \in 1..Len(inBuf) :
          freeCount < MaxFrees /\ InFree(b) /\ UNCHANGED <<bcVars, frameVars, scenVars>>
    \/ \E b \in 1..Len(outBuf) :
          freeCount < MaxFrees /\ OutFree(b) /\ UNCHANGED <<bcVars, frameVars, scenVars>>
    \/ \E b \in 1..Len(inBuf), size \in PrepareSizes :
          InPrepare(b, size) /\ UNCHANGED <<bcVars, frameVars, scenVars>>
    \/ \E b \in 1..Len(outBuf), size \in PrepareSizes :
          OutPrepare(b, size) /\ UNCHANGED <<bcVars, frameVars, scenVars>>
    \/ \E size \in ConfigSizes : PoolMaxDataSize(size) /\ UNCHANGED <<bcVars, frameVars, scenVars>>

Spec == Init /\ [][Next]_vars

(***************************************************************************)
(* Claims checked under Spec.                                              *)
(***************************************************************************)
\* capacity of the arena of the buffer the call recorded in r was made on
ArenaCapOf(r) == IF r.kind = "in" THEN inBuf[r.b].Data.cap ELSE outBuf[r.b].Data.cap

\* C1: a second Free on the same InBuffer or OutBuffer, with no acquire of that buffer in
\* between, panics and changes no pool counter and no sub-pool, whatever the capacity
\* of its arena.
C1_SecondFreeIsFatal ==
    [][(ret'.op = "Free" /\ ret'.second)
          => (ret'.panicked /\ UNCHANGED <<counters, subPools>>)]_vars

\* C9: a Free that reaches PutInBuffer / PutOutBuffer (the buffer is not already freed)
\* with an arena capacity above bufferMaxSize adds one to freeCount and one to dropCount
\* and stores nothing in any sub-pool; an acquire that finds its shell sub-pool and the
\* arena sub-pool empty allocates a fresh shell and a fresh arena.
C9_OversizeIsDropped ==
    [][/\ (ret'.op = "Free" /\ ~ret'.panicked /\ ArenaCapOf(ret') > bufferMaxSize)
          => /\ freeCount' = freeCount + 1
             /\ dropCount' = dropCount + 1
             /\ UNCHANGED subPools
       /\ (ret'.op = "GetInBuffer" /\ poolIn = <<>> /\ poolData = <<>>)
          => (newIn' = newIn + 1 /\ newData' = newData + 1 /\ nextPtr' = nextPtr + 1)
       /\ (ret'.op = "GetOutBuffer" /\ poolOut = <<>> /\ poolData = <<>>)
          => (newOut' = newOut + 1 /\ newData' = newData + 1 /\ nextPtr' = nextPtr + 1)
      ]_vars

\* an oversized buffer was dropped, every free so far was a drop, and the acquire that
\* just returned (like every one before it) had to allocate shell and arena
C9_Witness ==
    /\ ret.op \in {"GetInBuffer", "GetOutBuffer"}
    /\ dropCount > 0 /\ freeCount = dropCount
    /\ getIn + getOut >= 2
    /\ newIn = getIn /\ newOut = getOut /\ newData = getData
    /\ poolIn = <<>> /\ poolOut = <<>> /\ poolData = <<>>

(***************************************************************************)
(* SpecDecode: one caller acquiring InBuffers, sizing them and decoding.   *)
(***************************************************************************)
\* widths of the unsigned integer decoders
UintWidths == {1, 2, 4, 8}
\* sizes passed to InBuffer.Prepare before decoding
DecodeSizes == {1, 3}
\* lengths asked of Slice / ReadBytes / ReadString
DecodeLens == {1, 2, 3}
DecodeOps == {"Slice", "ReadBytes", "ReadUint"}
\* lengths of the span passed to InBuffer.Read
ReadSpans == {0, 1, 2}

NextDecode ==
    \/ getIn < MaxDecodeGets /\ GetInBuffer /\ UNCHANGED <<bcVars, frameVars, scenVars>>
    \/ \E b \in 1..Len(inBuf) :
          freeCount < MaxFrees /\ InFree(b) /\ UNCHANGED <<bcVars, frameVars, scenVars>>
    \/ \E b \in 1..Len(inBuf), size \in DecodeSizes :
          InPrepare(b, size) /\ UNCHANGED <<bcVars, frameVars, scenVars>>
    \/ \E b \in 1..Len(inBuf), n \in DecodeLens :
          /\ inBuf[b].ReadPos < MaxReadPos
          /\ Slice(b, n, "Slice") /\ UNCHANGED <<bcVars, frameVars, scenVars>>
    \/ \E b \in 1..Len(inBuf), n \in DecodeLens :
          /\ inBuf[b].ReadPos < MaxReadPos
          /\ ReadBytes(b, n) /\ UNCHANGED <<bcVars, frameVars, scenVars>>
    \/ \E b \in 1..Len(inBuf), w \in UintWidths :
          /\ inBuf[b].ReadPos < MaxReadPos
          /\ ReadUint(b, w) /\ UNCHANGED <<bcVars, frameVars, scenVars>>
    \/ \E b \in 1..Len(inBuf), m \in ReadSpans :
          InRead(b, m) /\ UNCHANGED <<bcVars, frameVars, scenVars>>
    \/ \E b \in 1..Len(inBuf) :
          ReadRune(b) /\ UNCHANGED <<bcVars, frameVars, scenVars>>
    \/ \E size \in ConfigSizes : PoolNewDataSize(size) /\ UNCHANGED <<bcVars, frameVars, scenVars>>

SpecDecode == Init /\ [][NextDecode]_vars

\* C2: a decode operation that needs n >= 1 bytes when ReadPos + n > len(Data) panics and
\* returns no bytes, also when cap(Data) >= ReadPos + n.
C2_PastEndIsFatal ==
    (ret.op \in DecodeOps /\ ret.hi > ret.len) => (ret.panicked /\ ret.bytes = <<>>)

\* the caller holds InBuffer b: it was acquired and Free was not called on it since
HeldIn(b) == ~inBuf[b].isFreed /\ <<"in", b>> \notin freedOnce

\* C12: an InBuffer that is held by a caller has 0 <= ReadPos <= len(Data), whatever
\* Prepare, decode and Read calls have returned on it (a call that panics changes nothing).
C12_ReadPosWithinData ==
    \A b \in 1..Len(inBuf) :
        HeldIn(b) => (0 <= inBuf[b].ReadPos /\ inBuf[b].ReadPos <= inBuf[b].Data.len)

\* C16: InBuffer.Prepare(size) leaves len(Data) = size and cap(Data) >= size, whatever
\* the state before; the arena is another one exactly when its capacity was below size
\* (otherwise it is the same array with the same capacity and contents); ReadPos, the
\* freed flag and every other buffer are as they were.
C16_PrepareSizesArenaOnly ==
    [][(ret'.op = "Prepare" /\ ret'.kind = "in") =>
          LET b == ret'.b
              old == inBuf[b]
              new == inBuf'[b]
          IN  /\ new.Data.len = ret'.size
              /\ new.Data.cap >= ret'.size
              /\ (new.Data.ptr # old.Data.ptr) = (old.Data.cap < ret'.size)
              /\ old.Data.cap >= ret'.size =>
                    (new.Data.cap = old.Data.cap /\ new.Data.mem = old.Data.mem)
              /\ new.ReadPos = old.ReadPos
              /\ new.isFreed = old.isFreed
              /\ \A c \in 1..Len(inBuf) : c # b => inBuf'[c] = inBuf[c]
      ]_vars

\* Prepare(3) replaced an arena of capacity 2 on a buffer whose cursor had been advanced
C16_Witness ==
    /\ ret.op = "Prepare" /\ ret.kind = "in" /\ ret.size = 3
    /\ inBuf[ret.b].Data.ptr = 2 /\ inBuf[ret.b].Data.cap = 3
    /\ inBuf[ret.b].ReadPos > 0 /\ ~inBuf[ret.b].isFreed

(***************************************************************************)
(* SpecRecycle: acquire a batch, use it, free all of it, acquire the same  *)
(* kinds again; the batch acquired last is then the batch to use and free. *)
(*   kinds : the buffers of the batch in hand, <<kind, shell>>             *)
(*   mark  : newIn, newOut, newData when the last buffer was freed, the    *)
(*           kinds still to acquire again, the buffers acquired again      *)
(***************************************************************************)
MaxBatch == 2       \* buffers in a batch
MaxRounds == 2      \* batches acquired again

\* sizes passed to Prepare in the scenario, all within the recycling ceiling
RecycleSizes == {1, DefaultInitSize + 1}
RecycleArgs == {<<7>>}

InitRecycle ==
    /\ InitPool
    /\ ret = NoCall
    /\ NoBroadcast /\ NoFrame
    /\ phase = "acquire" /\ kinds = <<>> /\ NoCodec /\ NoConc
    /\ mark = [newIn |-> 0, newOut |-> 0, newData |-> 0, todo |-> <<>>, got |-> <<>>, round |-> 0]

RecycleAcquireIn ==
    /\ phase = "acquire" /\ mark.round = 0 /\ Len(kinds) < MaxBatch
    /\ GetInBuffer
    /\ kinds' = Append(kinds, <<"in", ret'.b>>)
    /\ UNCHANGED <<bcVars, frameVars, phase, mark, codecVars, concVars>>

RecycleAcquireOut ==
    /\ phase = "acquire" /\ mark.round = 0 /\ Len(kinds) < MaxBatch
    /\ GetOutBuffer
    /\ kinds' = Append(kinds, <<"out", ret'.b>>)
    /\ UNCHANGED <<bcVars, frameVars, phase, mark, codecVars, concVars>>

RecycleUse ==
    /\ phase = "acquire"
    /\ \E i \in 1..Len(kinds) :
          \/ kinds[i][1] = "in" /\ \E size \in RecycleSizes : InPrepare(kinds[i][2], size)
          \/ /\ kinds[i][1] = "out" /\ outBuf[kinds[i][2]].Data.len < MaxLen
             /\ \E p \in RecycleArgs : OutAppend(kinds[i][2], p)
    /\ UNCHANGED <<bcVars, frameVars, scenVars>>

RecycleFree ==
    /\ phase \in {"acquire", "free"} /\ kinds # <<>>
    /\ \E i \in 1..Len(kinds) :
          /\ IF kinds[i][1] = "in" THEN InFree(kinds[i][2]) ELSE OutFree(kinds[i][2])
          /\ kinds' = Remove(kinds, i)
          /\ mark' = [mark EXCEPT !.todo = Append(@, kinds[i][1]), !.got = <<>>,
                                  !.newIn = newIn, !.newOut = newOut, !.newData = newData]
    /\ phase' = "free"
    /\ UNCHANGED <<bcVars, frameVars, codecVars, concVars>>

RecycleAcquireAgain ==
    /\ phase \in {"free", "again"} /\ kinds = <<>> /\ mark.todo # <<>>
    /\ \E i \in 1..Len(mark.todo) :
          /\ IF mark.todo[i] = "in" THEN GetInBuffer ELSE GetOutBuffer
          /\ mark' = [mark EXCEPT !.todo = Remove(@, i),
                                  !.got = Append(@, <<mark.todo[i], ret'.b>>)]
    /\ phase' = "again"
    /\ UNCHANGED <<bcVars, frameVars, kinds, codecVars, concVars>>

RecycleNextRound ==
    /\ phase = "again" /\ mark.todo = <<>> /\ mark.round + 1 < MaxRounds
    /\ phase' = "acquire"
    /\ kinds' = mark.got
    /\ mark' = [mark EXCEPT !.got = <<>>, !.round = @ + 1]
    /\ ret' = NoCall
    /\ UNCHANGED <<poolVars, bcVars, frameVars, codecVars, concVars>>

NextRecycle ==
    \/ RecycleAcquireIn
    \/ RecycleAcquireOut
    \/ RecycleUse
    \/ RecycleFree
    \/ RecycleAcquireAgain
    \/ RecycleNextRound

SpecRecycle == InitRecycle /\ [][NextRecycle]_vars

\* the arena a held buffer <<kind, shell>> has
DataOf(kb) == IF kb[1] = "in" THEN inBuf[kb[2]].Data ELSE outBuf[kb[2]].Data

\* C8: after acquiring N buffers and freeing all N (none above the recycling ceiling),
\* acquiring N buffers of the same kinds again allocates no shell and no arena (newIn,
\* newOut, newData are what they were when the last buffer was freed), and every buffer
\* acquired again has an arena of length 0.
C8_SecondBatchIsRecycled ==
    phase = "again" =>
        /\ newIn = mark.newIn /\ newOut = mark.newOut /\ newData = mark.newData
        /\ \A i \in 1..Len(mark.got) : DataOf(mark.got[i]).len = 0

\* a whole batch of two was acquired again, and one of its arenas still has in its
\* backing array the bytes written before it was freed
C8_Witness ==
    /\ phase = "again" /\ mark.todo = <<>> /\ Len(mark.got) = 2
    /\ \E i \in 1..Len(mark.got) :
          DataOf(mark.got[i]).mem # <<>> /\ DataOf(mark.got[i]).len = 0

(***************************************************************************)
(* SpecBroadcast: one OutBuffer shared by ndest destinations.  Each        *)
(* destination d goes idle -> used -> sent -> (freeing ->) done:           *)
(* broadcastUse, transmit, broadcastFree, whose out.Free() is a step of    *)
(* its own after the atomic decrement.  A destination that is done may     *)
(* call broadcastFree again.                                               *)
(***************************************************************************)
MaxDest == 2        \* destinations of a broadcast
MaxOver == 1        \* broadcastFree calls beyond one per destination

InitBroadcast ==
    /\ InitPool
    /\ ret = NoCall
    /\ NoBroadcast /\ NoFrame /\ NoScenario

\* the broadcaster acquires the buffer it is going to share
BroadcastAcquire ==
    /\ bc = 0
    /\ GetOutBuffer
    /\ bc' = ret'.b
    /\ UNCHANGED <<ndest, dpc, releases, frameVars, scenVars>>

\* the broadcaster marks the buffer shared and hands it to k destinations
BroadcastMark(k) ==
    /\ bc # 0 /\ ndest = 0
    /\ outBuf' = [outBuf EXCEPT ![bc].isBroadcast = TRUE]
    /\ ndest' = k
    /\ dpc' = [d \in 1..k |-> "idle"]
    /\ ret' = [op |-> "mark", panicked |-> FALSE]
    /\ UNCHANGED <<inBuf, subPools, counters, config, nextPtr, freedOnce, bc, releases,
                   frameVars, scenVars>>

\* OutBuffer.broadcastUse
broadcastUse(b) ==
    /\ outBuf' = [outBuf EXCEPT ![b].refCount = @ + 1]
    /\ UNCHANGED <<inBuf, subPools, counters, config, nextPtr, freedOnce>>

\* OutBuffer.broadcastFree up to its call of out.Free(): the decrement happens only
\* when isBroadcast is set (&& does not evaluate its right side otherwise)
broadcastFree(b) ==
    /\ outBuf' = IF outBuf[b].isBroadcast
                 THEN [outBuf EXCEPT ![b].refCount = @ - 1]
                 ELSE outBuf
    /\ UNCHANGED <<inBuf, subPools, counters, config, nextPtr, freedOnce>>

\* whether broadcastFree(b) goes on to call out.Free()
ReachesZero(b) == outBuf[b].isBroadcast /\ outBuf[b].refCount - 1 = 0

\* destinations that have used the buffer / that have made their release call
Used == {d \in 1..ndest : dpc[d] # "idle"}
Released == {d \in 1..ndest : dpc[d] \in {"freeing", "done"}}

DestUse(d) ==
    /\ dpc[d] = "idle"
    /\ broadcastUse(bc)
    /\ dpc' = [dpc EXCEPT ![d] = "used"]
    /\ ret' = [op |-> "broadcastUse", d |-> d, panicked |-> FALSE, freed |-> outBuf[bc].isFreed]
    /\ UNCHANGED <<bc, ndest, releases, frameVars, scenVars>>

DestTransmit(d) ==
    /\ dpc[d] = "used"
    /\ dpc' = [dpc EXCEPT ![d] = "sent"]
    /\ ret' = [op |-> "transmit", d |-> d, panicked |-> FALSE, freed |-> outBuf[bc].isFreed]
    /\ UNCHANGED <<poolVars, bc, ndest, releases, frameVars, scenVars>>

DestRelease(d) ==
    /\ dpc[d] = "sent"
    /\ broadcastFree(bc)
    /\ dpc' = [dpc EXCEPT ![d] = IF ReachesZero(bc) THEN "freeing" ELSE "done"]
    /\ releases' = releases + 1
    /\ ret' = [op |-> "broadcastFree", d |-> d, panicked |-> FALSE,
               over |-> releases = Cardinality(Used)]
    /\ UNCHANGED <<bc, ndest, frameVars, scenVars>>

DestReleaseAgain(d) ==
    /\ dpc[d] = "done"
    /\ releases < ndest + MaxOver
    /\ broadcastFree(bc)
    /\ dpc' = [dpc EXCEPT ![d] = IF ReachesZero(bc) THEN "freeing" ELSE "done"]
    /\ releases' = releases + 1
    /\ ret' = [op |-> "broadcastFree", d |-> d, panicked |-> FALSE,
               over |-> releases = Cardinality(Used)]
    /\ UNCHANGED <<bc, ndest, frameVars, scenVars>>

\* the out.Free() of a broadcastFree that brought the count to zero
DestFree(d) ==
    /\ dpc[d] = "freeing"
    /\ OutFree(bc)
    /\ dpc' = [dpc EXCEPT ![d] = "done"]
    /\ UNCHANGED <<bc, ndest, releases, frameVars, scenVars>>

\* some other caller acquires an OutBuffer while the broadcast is under way
OtherAcquire ==
    /\ bc # 0 /\ ndest # 0
    /\ getOut < MaxGets
    /\ GetOutBuffer
    /\ UNCHANGED <<bcVars, frameVars, scenVars>>

NextBroadcast ==
    \/ BroadcastAcquire
    \/ \E k \in 1..MaxDest : BroadcastMark(k)
    \/ \E d \in 1..ndest : DestUse(d)
    \/ \E d \in 1..ndest : DestTransmit(d)
    \/ \E d \in 1..ndest : DestRelease(d)
    \/ \E d \in 1..ndest : DestReleaseAgain(d)
    \/ \E d \in 1..ndest : DestFree(d)
    \/ OtherAcquire

SpecBroadcast == InitBroadcast /\ [][NextBroadcast]_vars

\* every destination has made exactly the release calls of its use/transmit/release run
Disciplined == releases = Cardinality(Released)

\* C3: with every destination doing use, transmit, release in that order, the shared
\* buffer is returned to the pool exactly once (freeCount counts PutOutBuffer calls, all
\* of them on this buffer), only after all destinations have released, and no
\* destination uses or transmits it after it was freed.
C3_FreedOnceAfterAllReleased ==
    (bc # 0 /\ ndest # 0 /\ Disciplined) =>
        /\ freeCount <= 1
        /\ freeCount = 1 => \A d \in 1..ndest : dpc[d] = "done"
        /\ (\A d \in 1..ndest : dpc[d] = "done") => freeCount = 1
        /\ ret.op \in {"broadcastUse", "transmit"} => ~ret.freed

\* C4: a broadcastFree call made when as many releases as uses have been made panics,
\* and the reference count is never negative.
C4_OverReleaseIsFatal ==
    /\ (ret.op = "broadcastFree" /\ ret.over) => ret.panicked
    /\ bc # 0 => outBuf[bc].refCount >= 0

(***************************************************************************)
(* {packet, N} framing (src/packetn.go).  PacketN always builds writers    *)
(* and readers with an 8-byte header: id in bytes [0:4], payload length in *)
(* bytes [4:8].                                                            *)
(***************************************************************************)
HeaderSize == 8

\* binary.ByteOrder.PutUint32 for order o: the four bytes of v
PutUint32(o, v) ==
    LET b0 == v % 256
        b1 == (v \div 256) % 256
        b2 == (v \div 65536) % 256
        b3 == (v \div 16777216) % 256
    IN  IF o = "LE" THEN <<b0, b1, b2, b3>> ELSE <<b3, b2, b1, b0>>

\* binary.ByteOrder.Uint32 for order o on the first four bytes of b
Uint32(o, b) ==
    IF o = "LE"
    THEN b[1] + 256 * b[2] + 65536 * b[3] + 16777216 * b[4]
    ELSE b[4] + 256 * b[3] + 65536 * b[2] + 16777216 * b[1]

Zeros(n) == [i \in 1..n |-> 0]

\* the two-argument Prepare of the framing layer's OutBuffer: the arena is given room for
\* `total` bytes and holds the n header bytes, zero-filled
OutPrepareHeader(d, n, total, p) ==
    IF d.cap < total
    THEN [ptr |-> p, len |-> n, cap |-> total, mem |-> <<>>]
    ELSE [Store(d, 0, Zeros(n)) EXCEPT !.len = n]

\* PNWriter.BeginPacket(size, buffer)
BeginPacket(size) ==
    /\ wpc = "idle"
    /\ wbuf' = OutPrepareHeader(wbuf, HeaderSize, HeaderSize + size, nextPtr + 1)
    /\ nextPtr' = IF wbuf.cap < HeaderSize + size THEN nextPtr + 1 ELSE nextPtr
    /\ wpc' = "begun"
    /\ ret' = [op |-> "BeginPacket", err |-> "nil", panicked |-> FALSE]
    /\ UNCHANGED <<inBuf, outBuf, subPools, counters, config, freedOnce, bcVars, scenVars,
                   bo, id, wmax, rmax, conn, connEnd, rbuf, head, sent, nreads>>

\* a payload write between BeginPacket and EndPacket (OutBuffer.WriteBytes and the like)
WritePayload(p) ==
    /\ wpc = "begun"
    /\ \E c \in GrowCaps(wbuf.cap, wbuf.len + Len(p)) :
          wbuf' = AppendBytes(wbuf, p, nextPtr + 1, c)
    /\ nextPtr' = IF wbuf.len + Len(p) > wbuf.cap THEN nextPtr + 1 ELSE nextPtr
    /\ ret' = [op |-> "WritePayload", err |-> "nil", panicked |-> FALSE]
    /\ UNCHANGED <<inBuf, outBuf, subPools, counters, config, freedOnce, bcVars, scenVars,
                   bo, id, wmax, rmax, wpc, conn, connEnd, rbuf, head, sent, nreads>>

\* EndPacket storing the length in bytes [0:4] and the id in bytes [4:8]
EndPacketData_Swapped(d) ==
    LET d1 == IF d.len >= 4 THEN Store(d, 0, PutUint32(bo, d.len - HeaderSize)) ELSE d
    IN  IF d.len >= 8 THEN Store(d1, 4, PutUint32(bo, id)) ELSE d1

\* what EndPacket leaves in the buffer d: the id is stored while at least 4 bytes are
\* there, the length while at least 8 are (PutUint32 panics on a shorter slice)
EndPacketData(d) ==
    LET d1 == IF d.len >= 4 THEN Store(d, 0, PutUint32(bo, id)) ELSE d
    IN  IF d.len >= 8 THEN Store(d1, 4, PutUint32(bo, d.len - HeaderSize)) ELSE d1

\* EndPacket testing the maximum only after it has stamped the header
EndPacket_StampFirst ==
    LET size == wbuf.len - HeaderSize
        tooLarge == wmax > 0 /\ size > wmax
        short == wbuf.len < HeaderSize
    IN  /\ wpc \in {"idle", "begun"}
        /\ wbuf' = EndPacketData(wbuf)
        /\ wpc' = IF tooLarge \/ short THEN "idle" ELSE "ended"
        /\ ret' = [op |-> "EndPacket", err |-> "nil", panicked |-> tooLarge \/ short,
                   pre |-> wbuf,
                   why |-> IF short THEN "index out of range"
                           ELSE IF tooLarge THEN "too large packet" ELSE "none"]
        /\ UNCHANGED <<poolVars, bcVars, scenVars,
                       bo, id, wmax, rmax, conn, connEnd, rbuf, head, sent, nreads>>

\* PNWriter.EndPacket(buffer); `why` is the panic raised: "too large packet" by the size
\* test, "index out of range" by PutUint32 on a buffer shorter than the header
EndPacket ==
    LET size == wbuf.len - HeaderSize
        tooLarge == wmax > 0 /\ size > wmax
        short == wbuf.len < HeaderSize
    IN  /\ wpc \in {"idle", "begun"}
        /\ wbuf' = IF tooLarge THEN wbuf ELSE EndPacketData(wbuf)
        /\ wpc' = IF tooLarge \/ short THEN "idle" ELSE "ended"
        /\ ret' = [op |-> "EndPacket", err |-> "nil", panicked |-> tooLarge \/ short,
                   pre |-> wbuf,
                   why |-> IF tooLarge THEN "too large packet"
                           ELSE IF short THEN "index out of range" ELSE "none"]
        /\ UNCHANGED <<poolVars, bcVars, scenVars,
                       bo, id, wmax, rmax, conn, connEnd, rbuf, head, sent, nreads>>

\* PNWriter.WritePacket(conn, buffer) when conn.Write takes the whole buffer
WritePacket ==
    /\ wpc = "ended" /\ connEnd = "open"
    /\ conn' = conn \o Bytes(wbuf)
    /\ sent' = Append(sent, Backing(wbuf, HeaderSize, wbuf.len))
    /\ wpc' = "idle"
    /\ ret' = [op |-> "WritePacket", err |-> "nil", panicked |-> FALSE]
    /\ UNCHANGED <<poolVars, bcVars, scenVars,
                   bo, id, wmax, rmax, wbuf, connEnd, rbuf, head, nreads>>

\* PNWriter.WritePacket when conn.Write fails after `cut` bytes: the error is returned
\* and the stream ends there (how: "eof" for a closed, "reset" for a failed transport)
WritePacketFails(cut, how) ==
    /\ wpc = "ended" /\ connEnd = "open"
    /\ cut < wbuf.len
    /\ conn' = conn \o Backing(wbuf, 0, cut)
    /\ connEnd' = how
    /\ wpc' = "idle"
    /\ ret' = [op |-> "WritePacket", err |-> "write error", panicked |-> FALSE]
    /\ UNCHANGED <<poolVars, bcVars, scenVars,
                   bo, id, wmax, rmax, wbuf, rbuf, head, sent, nreads>>

\* io.ReadFull(conn, buf) with len(buf) = want on the bytes c in flight returns once
\* `want` bytes have arrived or the stream has ended
CanReadFull(c, want) == Len(c) >= want \/ connEnd # "open"

ReadFull(c, want) ==
    IF Len(c) >= want
    THEN [data |-> SubSeq(c, 1, want), rest |-> SubSeq(c, want + 1, Len(c)), err |-> "nil"]
    ELSE [data |-> c, rest |-> <<>>,
          err |-> IF connEnd = "reset" THEN "reset"
                  ELSE IF Len(c) = 0 THEN "EOF" ELSE "ErrUnexpectedEOF"]

TransportErrors == {"EOF", "ErrUnexpectedEOF", "reset"}

\* ReadPacket sizing the InBuffer before it tests the maximum
ReadPacket_PrepareFirst ==
    LET h == ReadFull(conn, HeaderSize)
        newHead == h.data \o SubSeq(head, Len(h.data) + 1, HeaderSize)
        size == Uint32(bo, SubSeq(newHead, 5, 8))
        grown == Prepare(rbuf, size, nextPtr + 1)
        body == ReadFull(h.rest, size)
        done(c, buf, ptr, err, at) ==
            /\ conn' = c /\ rbuf' = buf /\ nextPtr' = ptr
            /\ ret' = [op |-> "ReadPacket", err |-> err, panicked |-> FALSE, at |-> at]
    IN  /\ CanReadFull(conn, HeaderSize)
        /\ head' = newHead
        /\ nreads' = nreads + 1
        /\ IF h.err # "nil" THEN done(h.rest, rbuf, nextPtr, h.err, "head")
           ELSE IF rmax > 0 /\ size > rmax
                THEN done(h.rest, grown, grown.ptr, "PacketTooLargeError", "size")
           ELSE IF size = 0 THEN done(h.rest, rbuf, nextPtr, "nil", "empty")
           ELSE /\ CanReadFull(h.rest, size)
                /\ done(body.rest, Store(grown, 0, body.data), grown.ptr, body.err, "body")
        /\ UNCHANGED <<inBuf, outBuf, subPools, counters, config, freedOnce, bcVars, scenVars,
                       bo, id, wmax, rmax, wbuf, wpc, connEnd, sent>>

\* ReadPacket dropping the error of the payload read
ReadPacket_IgnoreShortBody ==
    LET h == ReadFull(conn, HeaderSize)
        newHead == h.data \o SubSeq(head, Len(h.data) + 1, HeaderSize)
        size == Uint32(bo, SubSeq(newHead, 5, 8))
        grown == Prepare(rbuf, size, nextPtr + 1)
        body == ReadFull(h.rest, size)
        done(c, buf, ptr, err, at) ==
            /\ conn' = c /\ rbuf' = buf /\ nextPtr' = ptr
            /\ ret' = [op |-> "ReadPacket", err |-> err, panicked |-> FALSE, at |-> at]
    IN  /\ CanReadFull(conn, HeaderSize)
        /\ head' = newHead
        /\ nreads' = nreads + 1
        /\ IF h.err # "nil" THEN done(h.rest, rbuf, nextPtr, h.err, "head")
           ELSE IF rmax > 0 /\ size > rmax
                THEN done(h.rest, rbuf, nextPtr, "PacketTooLargeError", "size")
           ELSE IF size = 0 THEN done(h.rest, rbuf, nextPtr, "nil", "empty")
           ELSE /\ CanReadFull(h.rest, size)
                /\ done(body.rest, Store(grown, 0, body.data), grown.ptr, "nil", "body")
        /\ UNCHANGED <<inBuf, outBuf, subPools, counters, config, freedOnce, bcVars, scenVars,
                       bo, id, wmax, rmax, wbuf, wpc, connEnd, sent>>

\* PNReader.ReadPacket(conn, buffer); `at` names the return statement taken
ReadPacket ==
    LET h == ReadFull(conn, HeaderSize)
        newHead == h.data \o SubSeq(head, Len(h.data) + 1, HeaderSize)
        size == Uint32(bo, SubSeq(newHead, 5, 8))
        grown == Prepare(rbuf, size, nextPtr + 1)
        body == ReadFull(h.rest, size)
        done(c, buf, ptr, err, at) ==
            /\ conn' = c /\ rbuf' = buf /\ nextPtr' = ptr
            /\ ret' = [op |-> "ReadPacket", err |-> err, panicked |-> FALSE, at |-> at]
    IN  /\ CanReadFull(conn, HeaderSize)
        /\ head' = newHead
        /\ nreads' = nreads + 1
        /\ IF h.err # "nil" THEN done(h.rest, rbuf, nextPtr, h.err, "head")
           ELSE IF rmax > 0 /\ size > rmax
                THEN done(h.rest, rbuf, nextPtr, "PacketTooLargeError", "size")
           ELSE IF size = 0 THEN done(h.rest, rbuf, nextPtr, "nil", "empty")
           ELSE /\ CanReadFull(h.rest, size)
                /\ done(body.rest, Store(grown, 0, body.data), grown.ptr, body.err, "body")
        /\ UNCHANGED <<inBuf, outBuf, subPools, counters, config, freedOnce, bcVars, scenVars,
                       bo, id, wmax, rmax, wbuf, wpc, connEnd, sent>>

\* the peer closes the connection, or the transport fails, between two frames
CloseConn(how) ==
    /\ connEnd = "open"
    /\ connEnd' = how
    /\ ret' = [op |-> "Close", err |-> "nil", panicked |-> FALSE]
    /\ UNCHANGED <<poolVars, bcVars, scenVars,
                   bo, id, wmax, rmax, wbuf, wpc, conn, rbuf, head, sent, nreads>>

(***************************************************************************)
(* SpecFrame: a writer and a reader of one protocol on one byte stream.    *)
(***************************************************************************)
MaxFrames == 2      \* frames begun
MaxReads == 2       \* ReadPacket calls
MaxPayload == 3     \* a second payload write is issued while the payload stays within this
LongLen == 300      \* length of the long payload

LongPayload == [i \in 1..LongLen |-> (i % 5) + 1]
PayloadArgs == {<<1>>, <<2, 1, 3>>, LongPayload}
SizeHints == {0, 3}
ProtocolIds == {16909060}
MaxSizes == {0, 2}
WriteCuts == {3, 8, 9}
StreamEnds == {"eof", "reset"}

\* the reader's InBuffer: fresh from the pool, or holding the two bytes of an earlier message
ReaderBuffers == {Make(2, 0, DefaultInitSize),
                  [ptr |-> 2, len |-> 2, cap |-> DefaultInitSize, mem |-> <<9, 9>>]}

InitFrame ==
    /\ inBuf = <<>> /\ outBuf = <<>>
    /\ poolIn = <<>> /\ poolOut = <<>> /\ poolData = <<>>
    /\ getIn = 1 /\ newIn = 1 /\ getOut = 1 /\ newOut = 1
    /\ getData = 2 /\ newData = 2 /\ freeCount = 0 /\ dropCount = 0
    /\ bufferInitSize = DefaultInitSize /\ bufferMaxSize = DefaultMaxSize
    /\ nextPtr = 2
    /\ freedOnce = {}
    /\ ret = NoCall
    /\ NoBroadcast /\ NoScenario
    /\ bo \in {"LE", "BE"} /\ id \in ProtocolIds
    /\ wmax \in MaxSizes /\ rmax \in MaxSizes
    /\ wbuf = Make(1, 0, DefaultInitSize) /\ wpc = "idle"
    /\ conn = <<>> /\ connEnd = "open"
    /\ rbuf \in ReaderBuffers /\ head = Zeros(HeaderSize)
    /\ sent = <<>> /\ nreads = 0

NextFrame ==
    \/ \E size \in SizeHints : Len(sent) < MaxFrames /\ connEnd = "open" /\ BeginPacket(size)
    \/ \E p \in PayloadArgs :
          /\ wbuf.len = HeaderSize \/ wbuf.len + Len(p) <= HeaderSize + MaxPayload
          /\ WritePayload(p)
    \/ Len(sent) < MaxFrames /\ EndPacket
    \/ WritePacket
    \/ \E cut \in WriteCuts, how \in StreamEnds : WritePacketFails(cut, how)
    \/ nreads < MaxReads /\ ReadPacket
    \/ \E how \in StreamEnds : wpc = "idle" /\ CloseConn(how)

SpecFrame == InitFrame /\ [][NextFrame]_vars

\* the payloads written so far up to the k-th are all within the reader's maximum
AllWithinMax(k) == \A j \in 1..k : rmax = 0 \/ Len(sent[j]) <= rmax

\* C5: the k-th ReadPacket on a stream of frames written by the writer of the same
\* protocol (payloads within the reader's maximum, empty ones included) succeeds and
\* leaves in the InBuffer exactly the k-th payload, whatever the InBuffer held before.
C5_KthReadYieldsKthPayload ==
    (ret.op = "ReadPacket" /\ nreads <= Len(sent) /\ AllWithinMax(nreads))
        => (ret.err = "nil" /\ Bytes(rbuf) = sent[nreads])

\* the step is a ReadPacket call returning
ReadPacketReturns == ret'.op = "ReadPacket" /\ nreads' = nreads + 1

\* the length field of the header at the front of the bytes in flight
LengthInFlight == Uint32(bo, SubSeq(conn, 5, 8))

\* C6: with a reader maximum M > 0 and a header whose length field is above M, ReadPacket
\* returns PacketTooLargeError (no transport error), takes exactly the 8 header bytes
\* from the stream and leaves the InBuffer as it was.
C6_TooLargeIsDistinct ==
    [][(ReadPacketReturns /\ rmax > 0 /\ Len(conn) >= HeaderSize /\ LengthInFlight > rmax)
          => /\ ret'.err = "PacketTooLargeError"
             /\ ret'.err \notin TransportErrors
             /\ conn' = SubSeq(conn, HeaderSize + 1, Len(conn))
             /\ rbuf' = rbuf]_vars

\* a frame was refused as too large and payload bytes are still in the stream
C6_Witness ==
    ret.op = "ReadPacket" /\ ret.err = "PacketTooLargeError" /\ conn # <<>>

\* C7 as claimed: if the stream ends before 8 header bytes, or before as many payload
\* bytes as the header's length field says, ReadPacket returns a transport error.
C7_ShortStreamIsTransportError ==
    [][(ReadPacketReturns
         /\ (Len(conn) < HeaderSize \/ Len(conn) - HeaderSize < LengthInFlight))
          => ret'.err \in TransportErrors]_vars

\* C7 amended: if the stream ends before 8 header bytes, or -- the length field being
\* within the reader's maximum -- before that many payload bytes, ReadPacket returns a
\* transport error.
C7_ShortStreamWithinMaxIsTransportError ==
    [][(ReadPacketReturns
         /\ \/ Len(conn) < HeaderSize
            \/ /\ ~(rmax > 0 /\ LengthInFlight > rmax)
               /\ Len(conn) - HeaderSize < LengthInFlight)
          => ret'.err \in TransportErrors]_vars

\* the stream ended inside a payload: the header was read, the InBuffer was sized, and
\* the payload read came back short
C7_Witness ==
    /\ ret.op = "ReadPacket" /\ ret.at = "body" /\ ret.err \in TransportErrors
    /\ connEnd # "open" /\ conn = <<>>

\* C10: after EndPacket returns normally on a buffer of length L >= 8, bytes [0:4] decode
\* (in the protocol's byte order) to the protocol id and bytes [4:8] to L - 8, and the
\* bytes from offset 8 on and the length are what they were.
C10_EndPacketStampsHeader ==
    (ret.op = "EndPacket" /\ ~ret.panicked /\ ret.pre.len >= HeaderSize /\ wpc = "ended") =>
        /\ Uint32(bo, Backing(wbuf, 0, 4)) = id
        /\ Uint32(bo, Backing(wbuf, 4, 8)) = ret.pre.len - HeaderSize
        /\ wbuf.len = ret.pre.len
        /\ Backing(wbuf, HeaderSize, wbuf.len) = Backing(ret.pre, HeaderSize, ret.pre.len)

\* EndPacket stamped a little-endian header on the long payload (a length of two bytes)
C10_Witness ==
    /\ ret.op = "EndPacket" /\ ~ret.panicked /\ wpc = "ended"
    /\ bo = "LE" /\ wbuf.len = HeaderSize + LongLen
    /\ Backing(wbuf, 4, 6) = <<LongLen % 256, LongLen \div 256>>

\* C11: with a writer maximum M > 0 and a payload length (buffer length - 8) above M,
\* EndPacket panics with "too large packet" and leaves the buffer, its header bytes
\* included, as it was; with a payload length of at most M, or with M = 0, EndPacket does
\* not raise that panic.
C11_OversizeEndPacketIsFatal ==
    ret.op = "EndPacket" =>
        IF wmax > 0 /\ ret.pre.len - HeaderSize > wmax
        THEN /\ ret.panicked /\ ret.why = "too large packet"
             /\ Backing(wbuf, 0, HeaderSize) = Backing(ret.pre, 0, HeaderSize)
             /\ wbuf = ret.pre
        ELSE ret.why # "too large packet"

\* EndPacket refused a payload of three bytes under a maximum of two, and the header is
\* still the zeros BeginPacket left, not the protocol id
C11_Witness ==
    /\ ret.op = "EndPacket" /\ ret.panicked /\ ret.why = "too large packet"
    /\ wmax > 0 /\ wbuf.len = HeaderSize + 3
    /\ Backing(wbuf, 0, HeaderSize) = Zeros(HeaderSize)

(***************************************************************************)
(* SpecReuse: one caller acquiring buffers, using the ones it holds        *)
(* (sizing them, decoding the first byte, appending to an empty one,       *)
(* marking them shared) and calling Free in any order, double frees        *)
(* included.  The pool configuration is left as newBufferPool set it.      *)
(***************************************************************************)
MaxReuseGets == 2   \* acquire calls in SpecReuse
MaxReuseFrees == 2  \* calls that reach PutInBuffer / PutOutBuffer in SpecReuse

\* sizes passed to Prepare: a small one and one above the recycling ceiling
ReuseSizes == {2, DefaultMaxSize + 1}
ReuseArgs == {<<7>>}

\* the caller holds OutBuffer b: it was acquired and Free was not called on it since
HeldOut(b) == ~outBuf[b].isFreed /\ <<"out", b>> \notin freedOnce

\* the session layer marks an OutBuffer it holds as shared by a broadcast
ReuseMark(b) ==
    /\ HeldOut(b) /\ ~outBuf[b].isBroadcast
    /\ outBuf' = [outBuf EXCEPT ![b].isBroadcast = TRUE]
    /\ ret' = [op |-> "mark", kind |-> "out", b |-> b, panicked |-> FALSE]
    /\ UNCHANGED <<inBuf, subPools, counters, config, nextPtr, freedOnce>>

\* a destination of the broadcast takes its reference
ReuseUse(b) ==
    /\ HeldOut(b) /\ outBuf[b].isBroadcast /\ outBuf[b].refCount = 0
    /\ broadcastUse(b)
    /\ ret' = [op |-> "broadcastUse", kind |-> "out", b |-> b, panicked |-> FALSE]

NextReuse ==
    \/ getIn + getOut < MaxReuseGets /\ GetInBuffer /\ UNCHANGED <<bcVars, frameVars, scenVars>>
    \/ getIn + getOut < MaxReuseGets /\ GetOutBuffer /\ UNCHANGED <<bcVars, frameVars, scenVars>>
    \/ \E b \in 1..Len(inBuf) :
          freeCount < MaxReuseFrees /\ InFree(b) /\ UNCHANGED <<bcVars, frameVars, scenVars>>
    \/ \E b \in 1..Len(outBuf) :
          freeCount < MaxReuseFrees /\ OutFree(b) /\ UNCHANGED <<bcVars, frameVars, scenVars>>
    \/ \E b \in 1..Len(inBuf), size \in ReuseSizes :
          HeldIn(b) /\ InPrepare(b, size) /\ UNCHANGED <<bcVars, frameVars, scenVars>>
    \/ \E b \in 1..Len(inBuf) :
          /\ HeldIn(b) /\ inBuf[b].ReadPos = 0 /\ inBuf[b].Data.len > 0
          /\ Slice(b, 1, "Slice")
          /\ UNCHANGED <<bcVars, frameVars, scenVars>>
    \/ \E b \in 1..Len(outBuf), size \in ReuseSizes :
          HeldOut(b) /\ OutPrepare(b, size) /\ UNCHANGED <<bcVars, frameVars, scenVars>>
    \/ \E b \in 1..Len(outBuf), p \in ReuseArgs :
          /\ HeldOut(b) /\ outBuf[b].Data.len = 0
          /\ OutAppend(b, p)
          /\ UNCHANGED <<bcVars, frameVars, scenVars>>
    \/ \E b \in 1..Len(outBuf) : ReuseMark(b) /\ UNCHANGED <<bcVars, frameVars, scenVars>>
    \/ \E b \in 1..Len(outBuf) : ReuseUse(b) /\ UNCHANGED <<bcVars, frameVars, scenVars>>

SpecReuse == Init /\ [][NextReuse]_vars

\* C13: every InBuffer an acquire returns has ReadPos = 0 and isFreed = false, and every
\* OutBuffer an acquire returns has isFreed = false, isBroadcast = false and refCount = 0,
\* for a fresh shell and for a recycled one.
C13_AcquireReturnsResetShell ==
    /\ ret.op = "GetInBuffer" =>
          (inBuf[ret.b].ReadPos = 0 /\ ~inBuf[ret.b].isFreed)
    /\ ret.op = "GetOutBuffer" =>
          /\ ~outBuf[ret.b].isFreed /\ ~outBuf[ret.b].isBroadcast
          /\ outBuf[ret.b].refCount = 0

\* the second acquire returned the InBuffer shell and the arena that the first acquire
\* had allocated and Free had recycled
C13_Witness ==
    /\ ret.op = "GetInBuffer" /\ ret.recycled
    /\ getIn = 2 /\ newIn = 1 /\ newData = 1 /\ freeCount = 1
    /\ inBuf[ret.b].Data.len = 0 /\ nextPtr = 1

\* C20: with bufferMaxSize left as configured, after any sequence of acquire, Prepare,
\* write and Free calls every arena in the arena sub-pool has length 0 and a capacity
\* not above bufferMaxSize.
C20_PooledArenasAreEmptyAndBounded ==
    \A i \in 1..Len(poolData) :
        poolData[i].len = 0 /\ poolData[i].cap <= bufferMaxSize

\* one buffer was dropped for its capacity, and the arena in the sub-pool is one that
\* was written to and then truncated
C20_Witness ==
    /\ dropCount = 1 /\ freeCount = 2
    /\ Len(poolData) = 1 /\ poolData[1].len = 0 /\ poolData[1].mem = <<7>>
    /\ bufferMaxSize = DefaultMaxSize

(***************************************************************************)
(* Unsigned integer codec (src/unnamed/part_000).  A value is the sequence *)
(* of its 16-bit limbs, least significant first: one limb for uint8 and    *)
(* uint16, two for uint32, four for uint64.                                *)
(***************************************************************************)
\* byte(v >> k), k a multiple of 8
ByteOf(v, k) == (v[(k \div 16) + 1] \div (IF k % 16 = 0 THEN 1 ELSE 256)) % 256

\* the bytes WriteUint8 / WriteUint16LE ... WriteUint64BE append for v of width w
WriteUintBytes(w, o, v) ==
    IF o = "LE"
    THEN [i \in 1..w |-> ByteOf(v, 8 * (i - 1))]
    ELSE [i \in 1..w |-> ByteOf(v, 8 * (w - i))]

\* every decoder reading its bytes as little endian
UintOf_AlwaysLE(w, o, b) ==
    IF w = 1 THEN <<b[1]>>
    ELSE [j \in 1..(w \div 2) |-> b[2 * j - 1] + 256 * b[2 * j]]

\* what uint8(b[0]) / binary.LittleEndian.UintN(b) / binary.BigEndian.UintN(b) return
UintOf(w, o, b) ==
    IF w = 1 THEN <<b[1]>>
    ELSE IF o = "LE"
         THEN [j \in 1..(w \div 2) |-> b[2 * j - 1] + 256 * b[2 * j]]
         ELSE [j \in 1..(w \div 2) |-> b[w - 2 * j + 2] + 256 * b[w - 2 * j + 1]]

(***************************************************************************)
(* SpecCodec: a sender encodes values into its OutBuffer; the bytes are    *)
(* carried to the receiver's InBuffer as ReadPacket fills it (Prepare to   *)
(* the length, then the bytes); the receiver decodes.                      *)
(*   written : the values encoded, <<width, order, value>>                 *)
(*   decoded : what the receiver got, one record per call                  *)
(* The receiver either decodes the values one by one, or reads the message *)
(* as a stream with InBuffer.Read.                                         *)
(***************************************************************************)
MaxWrites == 3      \* values encoded into one message
MaxStreamItems == 1 \* values in a message that is read as a stream
MaxStreamReads == 3 \* InBuffer.Read calls on one message

\* lengths of the span passed to InBuffer.Read
StreamSpans == {0, 1, 3}

\* initial arena capacities: the default, and a small one set by PoolNewDataSize
CodecInitSizes == {DefaultInitSize, 2}

\* values written, per width: bytes all different, and high bits set
CodecValues(w) ==
    IF w = 1 THEN {<<0>>, <<200>>}
    ELSE IF w = 2 THEN {<<258>>, <<65279>>}
    ELSE IF w = 4 THEN {<<772, 258>>, <<65534, 65535>>}
    ELSE {<<1800, 1286, 772, 258>>, <<0, 0, 0, 32768>>}

CodecItems ==
    {<<1, "LE", v>> : v \in CodecValues(1)}
    \cup UNION {{<<w, o, v>> : v \in CodecValues(w)} : w \in {2, 4, 8}, o \in {"LE", "BE"}}

InitCodec ==
    /\ bufferInitSize \in CodecInitSizes /\ bufferMaxSize = DefaultMaxSize
    /\ inBuf = <<[FreshIn EXCEPT !.Data = Make(1, 0, bufferInitSize)]>>
    /\ outBuf = <<[FreshOut EXCEPT !.Data = Make(2, 0, bufferInitSize)]>>
    /\ poolIn = <<>> /\ poolOut = <<>> /\ poolData = <<>>
    /\ getIn = 1 /\ newIn = 1 /\ getOut = 1 /\ newOut = 1
    /\ getData = 2 /\ newData = 2 /\ freeCount = 0 /\ dropCount = 0
    /\ nextPtr = 2
    /\ freedOnce = {}
    /\ ret = NoCall
    /\ NoBroadcast /\ NoFrame
    /\ phase = "encode" /\ kinds = <<>> /\ mark = <<>> /\ NoCodec /\ NoConc

\* OutBuffer.WriteUint8 / WriteUint16LE ... WriteUint64BE
WriteUint(b, w, o, v) ==
    LET d == outBuf[b].Data
        p == WriteUintBytes(w, o, v)
        grows == d.len + w > d.cap
    IN  /\ \E c \in GrowCaps(d.cap, d.len + w) :
              outBuf' = [outBuf EXCEPT ![b].Data = AppendBytes(d, p, nextPtr + 1, c)]
        /\ nextPtr' = IF grows THEN nextPtr + 1 ELSE nextPtr
        /\ ret' = [op |-> "WriteUint", kind |-> "out", b |-> b, panicked |-> FALSE]
        /\ UNCHANGED <<inBuf, subPools, counters, config, freedOnce>>

CodecWrite ==
    /\ phase = "encode" /\ Len(written) < MaxWrites
    /\ \E it \in CodecItems :
          /\ WriteUint(1, it[1], it[2], it[3])
          /\ written' = Append(written, it)
    /\ UNCHANGED <<bcVars, frameVars, phase, kinds, mark, decoded, concVars>>

\* the message reaches the receiver: its InBuffer is sized to the message and filled
CodecDeliver ==
    LET msg == Bytes(outBuf[1].Data)
        grown == Prepare(inBuf[1].Data, Len(msg), nextPtr + 1)
    IN  /\ phase = "encode" /\ written # <<>>
        /\ inBuf' = [inBuf EXCEPT ![1].Data = Store(grown, 0, msg)]
        /\ nextPtr' = IF grown.ptr = nextPtr + 1 THEN nextPtr + 1 ELSE nextPtr
        /\ phase' \in IF Len(written) <= MaxStreamItems THEN {"decode", "stream"}
                                                        ELSE {"decode"}
        /\ ret' = [op |-> "deliver", panicked |-> FALSE]
        /\ UNCHANGED <<outBuf, subPools, counters, config, freedOnce,
                       bcVars, frameVars, kinds, mark, codecVars, concVars>>

\* the receiver decodes the next value with the primitive of its width and byte order
CodecDecode ==
    /\ phase = "decode" /\ Len(decoded) < Len(written)
    /\ LET it == written[Len(decoded) + 1]
       IN  /\ ReadUint(1, it[1])
           /\ decoded' = Append(decoded,
                            [value |-> IF ret'.panicked THEN <<>>
                                       ELSE UintOf(it[1], it[2], ret'.bytes),
                             panicked |-> ret'.panicked,
                             before |-> inBuf[1].ReadPos, after |-> inBuf'[1].ReadPos])
    /\ UNCHANGED <<bcVars, frameVars, phase, kinds, mark, written, concVars>>

\* the receiver reads the message as a stream into a span of length m
CodecRead(m) ==
    /\ phase = "stream" /\ Len(decoded) < MaxStreamReads
    /\ InRead(1, m)
    /\ decoded' = Append(decoded,
                     [m |-> m, n |-> ret'.n, err |-> ret'.err, bytes |-> ret'.bytes,
                      before |-> inBuf[1].ReadPos, after |-> inBuf'[1].ReadPos])
    /\ UNCHANGED <<bcVars, frameVars, phase, kinds, mark, written, concVars>>

NextCodec ==
    \/ CodecWrite
    \/ CodecDeliver
    \/ CodecDecode
    \/ \E m \in StreamSpans : CodecRead(m)

SpecCodec == InitCodec /\ [][NextCodec]_vars

\* C14: unsigned integers of widths 1, 2, 4 and 8 written into an OutBuffer, each in a
\* chosen byte order, and decoded from those bytes in the same sequence with the
\* matching-width, matching-order InBuffer primitives come back exactly; each read
\* advances ReadPos by its width, and after the last one ReadPos = len(Data).
C14_UintRoundTrip ==
    phase = "decode" =>
        /\ \A k \in 1..Len(decoded) :
              /\ ~decoded[k].panicked
              /\ decoded[k].value = written[k][3]
              /\ decoded[k].after = decoded[k].before + written[k][1]
        /\ Len(decoded) = Len(written) => inBuf[1].ReadPos = inBuf[1].Data.len

\* three values of different widths were decoded, the last a big-endian uint64 with
\* eight different bytes, from the arena append() had to reallocate
C14_Witness ==
    /\ phase = "decode" /\ Len(decoded) = 3
    /\ written[3] = <<8, "BE", <<1800, 1286, 772, 258>>>>
    /\ written[1][1] = 1 /\ written[2][1] = 4 /\ written[2][2] = "LE"
    /\ decoded[3].value = <<1800, 1286, 772, 258>>
    /\ bufferInitSize = 2 /\ inBuf[1].ReadPos = 13

Min(a, b) == IF a < b THEN a ELSE b

\* the bytes the Read calls recorded in s delivered, in the order of the calls
RECURSIVE Delivered(_)
Delivered(s) == IF s = <<>> THEN <<>> ELSE Delivered(SubSeq(s, 1, Len(s) - 1)) \o s[Len(s)].bytes

\* C15: InBuffer.Read into a span of length m copies min(m, len(Data) - ReadPos) bytes
\* starting at ReadPos, advances ReadPos by that number and reports it with no error;
\* it reports end-of-data with 0 bytes exactly when ReadPos = len(Data); the bytes
\* delivered by the calls so far are the arena's bytes up to ReadPos, in order, each
\* once, and all of the arena's bytes once end-of-data was reported.
C15_ReadDeliversInOrder ==
    phase = "stream" =>
        LET d == inBuf[1].Data
        IN  /\ \A k \in 1..Len(decoded) :
                  LET c == decoded[k]
                  IN  /\ (c.err = "EOF") = (c.before = d.len)
                      /\ c.err \in {"EOF", "nil"}
                      /\ c.err = "EOF" => (c.n = 0 /\ c.after = c.before)
                      /\ c.err = "nil" =>
                            /\ c.n = Min(c.m, d.len - c.before)
                            /\ c.bytes = Backing(d, c.before, c.before + c.n)
                            /\ c.after = c.before + c.n
            /\ Delivered(decoded) = Backing(d, 0, inBuf[1].ReadPos)
            /\ (decoded # <<>> /\ decoded[Len(decoded)].err = "EOF")
                  => Delivered(decoded) = Bytes(d)

\* a four-byte message was read in three calls: three bytes, the one byte left of a
\* span of three, then end-of-data
C15_Witness ==
    /\ phase = "stream" /\ Len(decoded) = 3
    /\ written = <<<<4, "BE", <<772, 258>>>>>>
    /\ decoded[1].bytes = <<1, 2, 3>> /\ decoded[2].m = 3 /\ decoded[2].bytes = <<4>>
    /\ decoded[3].err = "EOF" /\ decoded[3].n = 0

(***************************************************************************)
(* SpecConc: concurrent callers of the pool.  Every caller repeats         *)
(* acquire, use, Free (once), and each call is split at the points where   *)
(* other callers can run: between two atomic counter updates, sync.Pool    *)
(* calls and groups of field writes of the shell.                          *)
(*   pc[p]  : where caller p is                                            *)
(*   loc[p] : kind and shell of the buffer p is acquiring, holds or frees  *)
(*   snap   : the counters GetPoolState has loaded so far, in its order    *)
(***************************************************************************)
MaxConcGets == 3    \* acquire calls started

Callers == {"a", "b"}
NoBuffer == [kind |-> "none", b |-> 0]

InitConc ==
    /\ InitPool
    /\ ret = NoCall
    /\ NoBroadcast /\ NoFrame
    /\ phase = "none" /\ kinds = <<>> /\ mark = <<>> /\ NoCodec
    /\ pc = [p \in Callers |-> "idle"]
    /\ loc = [p \in Callers |-> NoBuffer]
    /\ snap = <<>>

\* the arena of the buffer caller p has
ConcData(p) == IF loc[p].kind = "in" THEN inBuf[loc[p].b].Data ELSE outBuf[loc[p].b].Data

\* GetInBuffer / GetOutBuffer incrementing getData before its request counter
ConcGetStart_DataFirst(p, k) ==
    /\ pc[p] = "idle" /\ getIn + getOut < MaxConcGets
    /\ getData' = getData + 1
    /\ pc' = [pc EXCEPT ![p] = "getData"]
    /\ loc' = [loc EXCEPT ![p] = [kind |-> k, b |-> 0]]
    /\ UNCHANGED <<inBuf, outBuf, subPools, getIn, getOut, newIn, newOut, newData, freeCount,
                   dropCount, config, nextPtr, freedOnce, ret, snap>>

\* GetInBuffer / GetOutBuffer, first statement: atomic.AddUint64(&pool.getIn / getOut, 1)
ConcGetStart(p, k) ==
    /\ pc[p] = "idle" /\ getIn + getOut < MaxConcGets
    /\ getIn' = IF k = "in" THEN getIn + 1 ELSE getIn
    /\ getOut' = IF k = "out" THEN getOut + 1 ELSE getOut
    /\ pc' = [pc EXCEPT ![p] = "getData"]
    /\ loc' = [loc EXCEPT ![p] = [kind |-> k, b |-> 0]]
    /\ UNCHANGED <<inBuf, outBuf, subPools, newIn, newOut, getData, newData, freeCount,
                   dropCount, config, nextPtr, freedOnce, ret, snap>>

\* atomic.AddUint64(&pool.getData, 1)
ConcGetData(p) ==
    /\ pc[p] = "getData"
    /\ getData' = getData + 1
    /\ pc' = [pc EXCEPT ![p] = "getShell"]
    /\ UNCHANGED <<inBuf, outBuf, subPools, getIn, getOut, newIn, newOut, newData, freeCount,
                   dropCount, config, nextPtr, freedOnce, ret, loc, snap>>

\* pool.in.Get() / pool.out.Get() leaving the shell it returns in the sub-pool
ConcGetShell_NoRemove(p) ==
    /\ pc[p] = "getShell"
    /\ IF loc[p].kind = "in"
       THEN \E i \in PoolGet(poolIn) :
               /\ loc' = [loc EXCEPT ![p].b = IF i = 0 THEN Len(inBuf) + 1 ELSE poolIn[i]]
               /\ inBuf' = IF i = 0 THEN Append(inBuf, FreshIn) ELSE inBuf
               /\ newIn' = IF i = 0 THEN newIn + 1 ELSE newIn
               /\ UNCHANGED <<poolIn, outBuf, poolOut, newOut>>
       ELSE \E i \in PoolGet(poolOut) :
               /\ loc' = [loc EXCEPT ![p].b = IF i = 0 THEN Len(outBuf) + 1 ELSE poolOut[i]]
               /\ outBuf' = IF i = 0 THEN Append(outBuf, FreshOut) ELSE outBuf
               /\ newOut' = IF i = 0 THEN newOut + 1 ELSE newOut
               /\ UNCHANGED <<poolOut, inBuf, poolIn, newIn>>
    /\ pc' = [pc EXCEPT ![p] = "getArena"]
    /\ UNCHANGED <<poolData, getIn, getOut, getData, newData, freeCount, dropCount, config,
                   nextPtr, freedOnce, ret, snap>>

\* in := pool.in.Get() / out := pool.out.Get(); New (which adds one to newIn / newOut)
\* runs inside Get when nothing is stored
ConcGetShell(p) ==
    /\ pc[p] = "getShell"
    /\ IF loc[p].kind = "in"
       THEN \E i \in PoolGet(poolIn) :
               /\ loc' = [loc EXCEPT ![p].b = IF i = 0 THEN Len(inBuf) + 1 ELSE poolIn[i]]
               /\ inBuf' = IF i = 0 THEN Append(inBuf, FreshIn) ELSE inBuf
               /\ newIn' = IF i = 0 THEN newIn + 1 ELSE newIn
               /\ poolIn' = IF i = 0 THEN poolIn ELSE Remove(poolIn, i)
               /\ UNCHANGED <<outBuf, poolOut, newOut>>
       ELSE \E i \in PoolGet(poolOut) :
               /\ loc' = [loc EXCEPT ![p].b = IF i = 0 THEN Len(outBuf) + 1 ELSE poolOut[i]]
               /\ outBuf' = IF i = 0 THEN Append(outBuf, FreshOut) ELSE outBuf
               /\ newOut' = IF i = 0 THEN newOut + 1 ELSE newOut
               /\ poolOut' = IF i = 0 THEN poolOut ELSE Remove(poolOut, i)
               /\ UNCHANGED <<inBuf, poolIn, newIn>>
    /\ pc' = [pc EXCEPT ![p] = "getArena"]
    /\ UNCHANGED <<poolData, getIn, getOut, getData, newData, freeCount, dropCount, config,
                   nextPtr, freedOnce, ret, snap>>

\* in.Data = pool.data.Get().([]byte)
ConcGetArena(p) ==
    /\ pc[p] = "getArena"
    /\ \E j \in PoolGet(poolData) :
          LET d == DataGet(j)
          IN  /\ newData' = newData + d.fresh
              /\ nextPtr' = nextPtr + d.fresh
              /\ poolData' = d.rest
              /\ IF loc[p].kind = "in"
                 THEN inBuf' = [inBuf EXCEPT ![loc[p].b].Data = d.slice] /\ UNCHANGED outBuf
                 ELSE outBuf' = [outBuf EXCEPT ![loc[p].b].Data = d.slice] /\ UNCHANGED inBuf
    /\ pc' = [pc EXCEPT ![p] = "getReset"]
    /\ UNCHANGED <<poolIn, poolOut, getIn, getOut, getData, newIn, newOut, freeCount,
                   dropCount, config, freedOnce, ret, loc, snap>>

\* in.isFreed = false (and out.isBroadcast = false, out.refCount = 0); return
ConcGetReturn(p) ==
    /\ pc[p] = "getReset"
    /\ IF loc[p].kind = "in"
       THEN inBuf' = [inBuf EXCEPT ![loc[p].b].isFreed = FALSE] /\ UNCHANGED outBuf
       ELSE /\ outBuf' = [outBuf EXCEPT ![loc[p].b] =
                             [@ EXCEPT !.isFreed = FALSE, !.isBroadcast = FALSE, !.refCount = 0]]
            /\ UNCHANGED inBuf
    /\ pc' = [pc EXCEPT ![p] = "hold"]
    /\ UNCHANGED <<subPools, counters, config, nextPtr, freedOnce, ret, loc, snap>>

\* the caller sizes the buffer it holds above the recycling ceiling
ConcPrepare(p) ==
    /\ pc[p] = "hold" /\ ConcData(p).cap <= bufferMaxSize
    /\ IF loc[p].kind = "in"
       THEN /\ inBuf' = [inBuf EXCEPT ![loc[p].b].Data = Prepare(@, bufferMaxSize + 1, nextPtr + 1)]
            /\ UNCHANGED outBuf
       ELSE /\ outBuf' = [outBuf EXCEPT ![loc[p].b].Data = Make(nextPtr + 1, 0, bufferMaxSize + 1)]
            /\ UNCHANGED inBuf
    /\ nextPtr' = nextPtr + 1
    /\ UNCHANGED <<subPools, counters, config, freedOnce, ret, concVars>>

\* InBuffer.Free / OutBuffer.Free up to the call of PutInBuffer / PutOutBuffer
ConcFreeStart(p) ==
    LET freed == IF loc[p].kind = "in" THEN inBuf[loc[p].b].isFreed
                                       ELSE outBuf[loc[p].b].isFreed
    IN  /\ pc[p] = "hold"
        /\ pc' = [pc EXCEPT ![p] = IF freed THEN "idle" ELSE "freeCount"]
        /\ loc' = IF freed THEN [loc EXCEPT ![p] = NoBuffer] ELSE loc
        /\ ret' = IF freed THEN [op |-> "Free", panicked |-> TRUE] ELSE ret
        /\ UNCHANGED <<inBuf, outBuf, subPools, counters, config, nextPtr, freedOnce, snap>>

\* atomic.AddUint64(&pool.freeCount, 1)
ConcFreeCount(p) ==
    /\ pc[p] = "freeCount"
    /\ freeCount' = freeCount + 1
    /\ pc' = [pc EXCEPT ![p] = "freeArena"]
    /\ UNCHANGED <<inBuf, outBuf, subPools, getIn, getOut, getData, newIn, newOut, newData,
                   dropCount, config, nextPtr, freedOnce, ret, loc, snap>>

\* the capacity test: count the drop and return, or pool.data.Put(in.Data[0:0])
ConcFreeArena(p) ==
    /\ pc[p] = "freeArena"
    /\ IF ConcData(p).cap > bufferMaxSize
       THEN /\ dropCount' = dropCount + 1
            /\ pc' = [pc EXCEPT ![p] = "idle"]
            /\ loc' = [loc EXCEPT ![p] = NoBuffer]
            /\ UNCHANGED poolData
       ELSE /\ poolData' = Append(poolData, [ConcData(p) EXCEPT !.len = 0])
            /\ pc' = [pc EXCEPT ![p] = "freeShell"]
            /\ UNCHANGED <<dropCount, loc>>
    /\ UNCHANGED <<inBuf, outBuf, poolIn, poolOut, getIn, getOut, getData, newIn, newOut,
                   newData, freeCount, config, nextPtr, freedOnce, ret, snap>>

\* in.Data = nil; in.ReadPos = 0; in.isFreed = true (out: Data and isFreed)
ConcFreeShell(p) ==
    /\ pc[p] = "freeShell"
    /\ IF loc[p].kind = "in"
       THEN /\ inBuf' = [inBuf EXCEPT ![loc[p].b] =
                            [Data |-> NilSlice, ReadPos |-> 0, isFreed |-> TRUE]]
            /\ UNCHANGED outBuf
       ELSE /\ outBuf' = [outBuf EXCEPT ![loc[p].b] =
                             [@ EXCEPT !.Data = NilSlice, !.isFreed = TRUE]]
            /\ UNCHANGED inBuf
    /\ pc' = [pc EXCEPT ![p] = "freePut"]
    /\ UNCHANGED <<subPools, counters, config, nextPtr, freedOnce, ret, loc, snap>>

\* pool.in.Put(in) / pool.out.Put(out); return
ConcFreePut(p) ==
    /\ pc[p] = "freePut"
    /\ IF loc[p].kind = "in"
       THEN poolIn' = Append(poolIn, loc[p].b) /\ UNCHANGED poolOut
       ELSE poolOut' = Append(poolOut, loc[p].b) /\ UNCHANGED poolIn
    /\ pc' = [pc EXCEPT ![p] = "idle"]
    /\ loc' = [loc EXCEPT ![p] = NoBuffer]
    /\ UNCHANGED <<inBuf, outBuf, poolData, counters, config, nextPtr, freedOnce, ret, snap>>

\* GetPoolState: the next atomic.LoadUint64, in the order getIn, newIn, getOut, newOut,
\* getData, newData, freeCount, dropCount
SnapLoad ==
    /\ Len(snap) < 8
    /\ snap' = Append(snap, counters[Len(snap) + 1])
    /\ UNCHANGED <<poolVars, ret, pc, loc>>

NextConc ==
    \/ \E p \in Callers, k \in {"in", "out"} :
          ConcGetStart(p, k) /\ UNCHANGED <<bcVars, frameVars, phase, kinds, mark, codecVars>>
    \/ \E p \in Callers : ConcGetData(p) /\ UNCHANGED <<bcVars, frameVars, phase, kinds, mark, codecVars>>
    \/ \E p \in Callers : ConcGetShell(p) /\ UNCHANGED <<bcVars, frameVars, phase, kinds, mark, codecVars>>
    \/ \E p \in Callers : ConcGetArena(p) /\ UNCHANGED <<bcVars, frameVars, phase, kinds, mark, codecVars>>
    \/ \E p \in Callers : ConcGetReturn(p) /\ UNCHANGED <<bcVars, frameVars, phase, kinds, mark, codecVars>>
    \/ \E p \in Callers : ConcPrepare(p) /\ UNCHANGED <<bcVars, frameVars, phase, kinds, mark, codecVars>>
    \/ \E p \in Callers : ConcFreeStart(p) /\ UNCHANGED <<bcVars, frameVars, phase, kinds, mark, codecVars>>
    \/ \E p \in Callers : ConcFreeCount(p) /\ UNCHANGED <<bcVars, frameVars, phase, kinds, mark, codecVars>>
    \/ \E p \in Callers : ConcFreeArena(p) /\ UNCHANGED <<bcVars, frameVars, phase, kinds, mark, codecVars>>
    \/ \E p \in Callers : ConcFreeShell(p) /\ UNCHANGED <<bcVars, frameVars, phase, kinds, mark, codecVars>>
    \/ \E p \in Callers : ConcFreePut(p) /\ UNCHANGED <<bcVars, frameVars, phase, kinds, mark, codecVars>>

SpecConc == InitConc /\ [][NextConc]_vars

\* an acquire call is in progress: it has counted its request and has not returned
AcquireInProgress == \E p \in Callers : pc[p] \in {"getData", "getShell", "getArena", "getReset"}

\* C17: under any interleaving of concurrent acquire and free calls, newIn <= getIn,
\* newOut <= getOut, newData <= getData, dropCount <= freeCount and
\* getData <= getIn + getOut always hold, getData = getIn + getOut holds whenever no
\* acquire is in progress, and no step makes a counter smaller.
C17_CountersAreOrderedAndMonotone ==
    [][/\ newIn' <= getIn' /\ newOut' <= getOut' /\ newData' <= getData'
       /\ dropCount' <= freeCount'
       /\ getData' <= getIn' + getOut'
       /\ ~AcquireInProgress' => getData' = getIn' + getOut'
       /\ \A i \in 1..8 : counters'[i] >= counters[i]
      ]_vars

\* both callers are inside an acquire, one of them between its two request counters,
\* after a buffer was dropped
C17_Witness ==
    /\ pc["a"] = "getData" /\ pc["b"] \in {"getShell", "getArena"}
    /\ getData < getIn + getOut
    /\ dropCount = 1 /\ freeCount = 1 /\ newData = 1

\* callers that hold a buffer: their acquire has returned and they have not called Free
Holders == {p \in Callers : pc[p] = "hold"}
\* callers that have a shell in hand, acquiring, holding or freeing it
WithShell == {p \in Callers : loc[p].b # 0}

NoDuplicates(q) == \A i, j \in 1..Len(q) : i # j => q[i] # q[j]
ArenasIn(q) == {q[i].ptr : i \in 1..Len(q)}
ShellsIn(q) == {q[i] : i \in 1..Len(q)}

\* C19: with every caller calling Free once per buffer it acquired, under any
\* interleaving no shell is with two callers at the same time, no arena is referenced
\* by two held buffers, and no shell or arena is in a sub-pool more than once or while
\* a caller holds it.
C19_BuffersAreExclusive ==
    /\ \A p, q \in WithShell : p # q => loc[p] # loc[q]
    /\ \A p, q \in Holders : p # q => ConcData(p).ptr # ConcData(q).ptr
    /\ NoDuplicates(poolIn) /\ NoDuplicates(poolOut)
    /\ NoDuplicates([i \in 1..Len(poolData) |-> poolData[i].ptr])
    /\ \A p \in WithShell :
          loc[p].b \notin ShellsIn(IF loc[p].kind = "in" THEN poolIn ELSE poolOut)
    /\ \A p \in Holders : ConcData(p).ptr \notin ArenasIn(poolData)

\* caller b holds a buffer whose arena caller a has just put back: a is inside Free,
\* after pool.data.Put and before it clears the Data field of its shell
C19_Witness ==
    /\ pc["a"] = "freeShell" /\ pc["b"] = "hold"
    /\ ConcData("a").ptr = ConcData("b").ptr
    /\ loc["a"].kind = loc["b"].kind /\ loc["a"].b # loc["b"].b

(***************************************************************************)
(* SpecSnap: the concurrent callers of SpecConc and an observer calling    *)
(* GetPoolState once, one atomic load per step.                            *)
(***************************************************************************)
MaxSnapGets == 2    \* acquire calls started while the snapshot may be taken

NextSnap ==
    \/ \E p \in Callers, k \in {"in", "out"} :
          getIn + getOut < MaxSnapGets /\ ConcGetStart(p, k) /\ UNCHANGED <<bcVars, frameVars, phase, kinds, mark, codecVars>>
    \/ \E p \in Callers : ConcGetData(p) /\ UNCHANGED <<bcVars, frameVars, phase, kinds, mark, codecVars>>
    \/ \E p \in Callers : ConcGetShell(p) /\ UNCHANGED <<bcVars, frameVars, phase, kinds, mark, codecVars>>
    \/ \E p \in Callers : ConcGetArena(p) /\ UNCHANGED <<bcVars, frameVars, phase, kinds, mark, codecVars>>
    \/ \E p \in Callers : ConcGetReturn(p) /\ UNCHANGED <<bcVars, frameVars, phase, kinds, mark, codecVars>>
    \/ \E p \in Callers : ConcPrepare(p) /\ UNCHANGED <<bcVars, frameVars, phase, kinds, mark, codecVars>>
    \/ \E p \in Callers : ConcFreeStart(p) /\ UNCHANGED <<bcVars, frameVars, phase, kinds, mark, codecVars>>
    \/ \E p \in Callers : ConcFreeCount(p) /\ UNCHANGED <<bcVars, frameVars, phase, kinds, mark, codecVars>>
    \/ \E p \in Callers : ConcFreeArena(p) /\ UNCHANGED <<bcVars, frameVars, phase, kinds, mark, codecVars>>
    \/ \E p \in Callers : ConcFreeShell(p) /\ UNCHANGED <<bcVars, frameVars, phase, kinds, mark, codecVars>>
    \/ \E p \in Callers : ConcFreePut(p) /\ UNCHANGED <<bcVars, frameVars, phase, kinds, mark, codecVars>>
    \/ SnapLoad /\ UNCHANGED <<bcVars, frameVars, phase, kinds, mark, codecVars>>

SpecSnap == InitConc /\ [][NextSnap]_vars

\* C18: the request count and the fresh-allocation count GetPoolState uses for a
\* sub-pool were both current at one instant, so the fresh-allocation count never
\* exceeds the request count (no negative hit rate): newIn <= getIn, newOut <= getOut
\* and newData <= getData among the values loaded.
C18_SnapshotIsConsistent ==
    /\ Len(snap) >= 2 => snap[2] <= snap[1]
    /\ Len(snap) >= 4 => snap[4] <= snap[3]
    /\ Len(snap) >= 6 => snap[6] <= snap[5]

====
